---- MODULE Spec2Model ----
(***************************************************************************)
(* A model of generate_files/bundle_files.py (Walker, Bundler, Tree        *)
(* printer) and generate_files/genfiles.py (Splitter).                     *)
(*                                                                         *)
(* A Python str is a sequence of one-character strings, so that substring  *)
(* tests, glob matching, case folding, line splitting and the marker       *)
(* pattern are computed character by character.  A path below the start    *)
(* directory is the sequence of its segments; rel(path) is the string the  *)
(* code works with (segments joined by "/").                               *)
(*                                                                         *)
(* Platform: POSIX (os.sep = "/", fnmatch is case-sensitive).  File texts  *)
(* are what Python's text layer hands to the code and takes from it; its   *)
(* decoding and newline translation are not part of the model.  Patterns   *)
(* hold no "[" (fnmatch's character classes are not modelled).             *)
(***************************************************************************)
EXTENDS Integers, Sequences, FiniteSets, TLC

\* Bounds of the explored inputs.
MaxFiles == 3
MaxBundleFiles == 2
MaxLines == 3

VARIABLES
  files,             \* the file paths of the tree under start_dir
  content,           \* the text of each file, as a text-mode read() returns it
  EXTENSIONS,        \* rule set (module-level configuration in the code)
  EXCLUDE_PATTERNS,
  EXCLUDE_FILES,
  INCLUDE_PATTERNS,
  pc,                \* position of the running operation
  walkStack,         \* directories os.walk has still to yield, next first
  targets,           \* scan_target_files: targets
  matched,           \* scan_target_files: matched
  yielded,           \* directories os.walk has yielded to the loop body
  enumerated,        \* directories whose filenames the loop body went through
  warnings,          \* the warn() calls made so far
  include_all_files, \* build_tree_lines parameter
  treeStack,         \* pending walk(current_dir, level) calls, next first
  lines,             \* build_tree_lines: lines
  tags,              \* for each element of lines, the entry it was emitted for
  tree_file,         \* what write_tree wrote
  output,            \* the text of OUTPUT_FILE, or NoFile
  old_output,        \* what OUTPUT_FILE held when the run began
  queue,             \* bundle_files: the sorted targets still to write
  success,           \* bundle_files reported "Erfolgreich alle Dateien ... gebuendelt"
  read_error,        \* the file whose read raised in bundle_files (None, or one path)
  input_file,        \* the text split_by_marker is given
  raw_lines,         \* split_by_marker: the lines still to go through
  current_path,      \* split_by_marker: current_path (None, or one path)
  buffer,            \* split_by_marker: buffer
  out_files,         \* the files below output_base, by relative path
  writes             \* the write_block calls made so far

treeVars == <<include_all_files, treeStack, lines, tags, tree_file>>
ruleVars == <<EXTENSIONS, EXCLUDE_PATTERNS, EXCLUDE_FILES, INCLUDE_PATTERNS>>
fsVars == <<files, content>>
scanVars == <<walkStack, targets, matched, yielded, enumerated>>
bundleVars == <<output, old_output, queue, success, read_error>>
splitVars == <<input_file, raw_lines, current_path, buffer, out_files, writes>>
vars == <<fsVars, ruleVars, pc, scanVars, warnings, treeVars, bundleVars, splitVars>>

NoFile == "absent"

\* an optional value: None, or Some(v)
None == <<>>
Some(v) == <<v>>

-----------------------------------------------------------------------------
(* Python str operations *)

\* The characters in code point order.
ASCII ==
  << "\n", "\r", " ", "(", ")", "*", ".", "/", ":", "?",
     "A","B","C","D","E","F","G","H","I","J","K","L","M",
     "N","O","P","Q","R","S","T","U","V","W","X","Y","Z",
     "[", "\\", "]", "_",
     "a","b","c","d","e","f","g","h","i","j","k","l","m",
     "n","o","p","q","r","s","t","u","v","w","x","y","z" >>

UPPER == <<"A","B","C","D","E","F","G","H","I","J","K","L","M","N","O","P","Q","R","S","T","U","V","W","X","Y","Z">>
LOWER == <<"a","b","c","d","e","f","g","h","i","j","k","l","m","n","o","p","q","r","s","t","u","v","w","x","y","z">>

ord(c) == CHOOSE i \in 1..Len(ASCII) : ASCII[i] = c

lower_char(c) ==
  IF \E i \in 1..Len(UPPER) : UPPER[i] = c
  THEN LOWER[CHOOSE i \in 1..Len(UPPER) : UPPER[i] = c]
  ELSE c

\* str.lower()
lower(s) == [i \in 1..Len(s) |-> lower_char(s[i])]

\* str.casefold(); the same as lower() on ASCII
casefold(s) == [i \in 1..Len(s) |-> lower_char(s[i])]

\* a < b on str: lexicographic by code point
str_lt(a, b) ==
  LET n == IF Len(a) < Len(b) THEN Len(a) ELSE Len(b)
      diff == {i \in 1..n : a[i] # b[i]}
  IN IF diff = {} THEN Len(a) < Len(b)
     ELSE LET k == CHOOSE i \in diff : \A j \in diff : i <= j
          IN ord(a[k]) < ord(b[k])

str_le(a, b) == a = b \/ str_lt(a, b)

\* pat in s
contains(s, pat) ==
  \E i \in 0..(Len(s) - Len(pat)) : SubSeq(s, i + 1, i + Len(pat)) = pat

startswith(s, prefix) ==
  Len(prefix) <= Len(s) /\ SubSeq(s, 1, Len(prefix)) = prefix

endswith(s, suffix) ==
  Len(suffix) <= Len(s) /\ SubSeq(s, Len(s) - Len(suffix) + 1, Len(s)) = suffix

RECURSIVE rstrip(_, _)
rstrip(s, chars) ==
  IF s # <<>> /\ s[Len(s)] \in chars THEN rstrip(SubSeq(s, 1, Len(s) - 1), chars) ELSE s

RECURSIVE lstrip(_, _)
lstrip(s, chars) ==
  IF s # <<>> /\ Head(s) \in chars THEN lstrip(Tail(s), chars) ELSE s

WHITESPACE == {" ", "\n", "\r"}

\* str.strip()
strip(s) == lstrip(rstrip(s, WHITESPACE), WHITESPACE)

RECURSIVE join(_, _)
join(sep, parts) ==
  IF parts = <<>> THEN <<>>
  ELSE IF Len(parts) = 1 THEN parts[1]
  ELSE parts[1] \o sep \o join(sep, Tail(parts))

RECURSIVE concat(_)
concat(parts) == IF parts = <<>> THEN <<>> ELSE Head(parts) \o concat(Tail(parts))

\* os.path.relpath(p, start_dir).replace("\\", "/"); "" for the start directory
rel(path) == join(<<"/">>, path)

\* os.path.basename
basename(s) ==
  LET slashes == {i \in 1..Len(s) : s[i] = "/"}
  IN IF slashes = {} THEN s
     ELSE SubSeq(s, (CHOOSE i \in slashes : \A j \in slashes : j <= i) + 1, Len(s))

\* pathlib.PurePath.suffix of a file name
suffix(name) ==
  LET dots == {i \in 1..Len(name) : name[i] = "."}
  IN IF dots = {} THEN <<>>
     ELSE LET i == CHOOSE d \in dots : \A j \in dots : j <= d
          IN IF 1 < i /\ i < Len(name) THEN SubSeq(name, i, Len(name)) ELSE <<>>

\* fnmatch.fnmatch(name, pat) on POSIX: "*" matches any run of characters
\* ("/" included), "?" any one character, anything else itself.
RECURSIVE fnmatch(_, _)
fnmatch(name, pat) ==
  IF pat = <<>> THEN name = <<>>
  ELSE IF Head(pat) = "*"
       THEN fnmatch(name, Tail(pat)) \/ (name # <<>> /\ fnmatch(Tail(name), pat))
  ELSE IF Head(pat) = "?"
       THEN name # <<>> /\ fnmatch(Tail(name), Tail(pat))
  ELSE name # <<>> /\ Head(name) = Head(pat) /\ fnmatch(Tail(name), Tail(pat))

\* The orders in which a directory listing may return the members of S.
RECURSIVE Perms(_)
Perms(S) ==
  IF S = {} THEN {<<>>}
  ELSE UNION {{<<x>> \o p : p \in Perms(S \ {x})} : x \in S}

Range(s) == {s[i] : i \in 1..Len(s)}

\* list.sort(key=...) / sorted(..., key=...): stable, by ascending key.
\* key_of is a function from the elements to their keys.  The element at
\* position i moves behind every element with a smaller key and every
\* earlier element with an equal key.
sorted(s, key_of) ==
  LET place(i) ==
        1 + Cardinality({j \in 1..Len(s) :
                           \/ str_lt(key_of[s[j]], key_of[s[i]])
                           \/ (key_of[s[j]] = key_of[s[i]] /\ j < i)})
  IN [p \in 1..Len(s) |-> s[CHOOSE i \in 1..Len(s) : place(i) = p]]

-----------------------------------------------------------------------------
(* The tree under start_dir *)

root == <<>>

is_under(path, dir) == Len(dir) < Len(path) /\ SubSeq(path, 1, Len(dir)) = dir

\* every directory of the tree, the start directory included
dirs == {root} \cup UNION {{SubSeq(f, 1, k) : k \in 0..Len(f) - 1} : f \in files}

name_of(path) == path[Len(path)]

parent(path) == SubSeq(path, 1, Len(path) - 1)

\* the non-directory entries of a directory
files_in(dir) == {f \in files : parent(f) = dir}

\* the directory entries of a directory
dirs_in(dir) == {d \in dirs : d # root /\ parent(d) = dir}

-----------------------------------------------------------------------------
(* Helper functions of bundle_files.py *)

\* a slip: the pattern is compared with the directory path, not searched in it
should_skip_dir_exact(rel_dir) ==
  \E pat \in EXCLUDE_PATTERNS : rel_dir = pat

should_skip_dir(rel_dir) ==
  \E pat \in EXCLUDE_PATTERNS : contains(rel_dir, pat)

is_excluded_file(filepath_or_name) ==
  basename(filepath_or_name) \in EXCLUDE_FILES

matches_include_patterns(rel_path) ==
  IF INCLUDE_PATTERNS = {} THEN TRUE
  ELSE \E pat \in INCLUDE_PATTERNS : fnmatch(rel_path, pat)

is_dir_relevant(rel_dir_arg) ==
  IF INCLUDE_PATTERNS = {} THEN TRUE
  ELSE LET rel_dir == rstrip(rel_dir_arg, {"/", "\\"})
       IN IF rel_dir = <<>> \/ rel_dir = <<".">>
          THEN TRUE
          ELSE \E pat \in INCLUDE_PATTERNS :
                 \/ fnmatch(rel_dir, pat)
                 \/ startswith(pat, rel_dir \o <<"/">>)
                 \/ startswith(pat, rel_dir \o <<"\\">>)

\* warn(...) calls, by what they report
WarnDir(rel_dir) == [kind |-> "Ausgeschlossener Ordner", what |-> rel_dir]
WarnFile(rel_path, reason) ==
  [kind |-> "Ausgeschlossene Datei", what |-> rel_path, reason |-> reason]
WarnPattern(pat) == [kind |-> "Keine Dateien fuer Include-Pattern", what |-> pat]

-----------------------------------------------------------------------------
(* scan_target_files *)

\* What the loop body does with one file name: "target", or the reason it
\* logs for passing the file over.
scan_verdict(file) ==
  IF lower(suffix(name_of(file))) \notin EXTENSIONS
  THEN "Dateiendung nicht in EXTENSIONS"
  ELSE IF is_excluded_file(name_of(file))
  THEN "Dateiname in EXCLUDE_FILES"
  ELSE IF ~matches_include_patterns(rel(file))
  THEN "kein Treffer in INCLUDE_PATTERNS"
  ELSE "target"

\* os.walk yields a directory the include patterns make irrelevant:
\* dirnames[:] = []; continue
ScanPruneIrrelevant ==
  /\ pc = "scan"
  /\ walkStack # <<>>
  /\ LET dirpath == Head(walkStack)
     IN /\ ~is_dir_relevant(rel(dirpath))
        /\ walkStack' = Tail(walkStack)
        /\ yielded' = yielded \cup {dirpath}
  /\ UNCHANGED <<fsVars, ruleVars, pc, targets, matched, enumerated, warnings, treeVars, bundleVars, splitVars>>

\* os.walk yields a directory an exclusion pattern hits:
\* dirnames[:] = []; continue
ScanSkipDir ==
  /\ pc = "scan"
  /\ walkStack # <<>>
  /\ LET dirpath == Head(walkStack)
     IN /\ is_dir_relevant(rel(dirpath))
        /\ should_skip_dir(rel(dirpath))
        /\ warnings' = warnings \cup {WarnDir(rel(dirpath))}
        /\ walkStack' = Tail(walkStack)
        /\ yielded' = yielded \cup {dirpath}
  /\ UNCHANGED <<fsVars, ruleVars, pc, targets, matched, enumerated, treeVars, bundleVars, splitVars>>

\* os.walk yields a directory that is kept: its file names are gone through
\* in listing order and its subdirectories are walked next, in listing order.
ScanDir ==
  /\ pc = "scan"
  /\ walkStack # <<>>
  /\ LET dirpath == Head(walkStack)
     IN /\ is_dir_relevant(rel(dirpath))
        /\ ~should_skip_dir(rel(dirpath))
        /\ \E filenames \in Perms(files_in(dirpath)), dirnames \in Perms(dirs_in(dirpath)) :
             \E found \in {SelectSeq(filenames, LAMBDA f : scan_verdict(f) = "target")} :
                /\ targets' = targets \o found
                /\ matched' = [pat \in INCLUDE_PATTERNS |->
                                 matched[pat] \/ \E f \in Range(found) : fnmatch(rel(f), pat)]
                /\ warnings' = warnings \cup
                     {WarnFile(rel(f), scan_verdict(f)) : f \in Range(filenames) \ Range(found)}
                /\ walkStack' = dirnames \o Tail(walkStack)
        /\ yielded' = yielded \cup {dirpath}
        /\ enumerated' = enumerated \cup {dirpath}
  /\ UNCHANGED <<fsVars, ruleVars, pc, treeVars, bundleVars, splitVars>>

\* os.walk is exhausted: return targets, matched
ScanReturn ==
  /\ pc = "scan"
  /\ walkStack = <<>>
  /\ pc' = "scanned"
  /\ UNCHANGED <<fsVars, ruleVars, scanVars, warnings, treeVars, bundleVars, splitVars>>

-----------------------------------------------------------------------------
(* build_tree_lines / write_tree *)

TREE_INCLUDE_ALL_FILES_EXCEPT_EXCLUDES == TRUE

\* f"{'  '*level}* {name}"
RECURSIVE indent(_)
indent(level) == IF level = 0 THEN <<>> ELSE <<" "," ">> \o indent(level - 1)

\* a slip: one indentation unit too few below the first level
tree_line_shallow(level, name) ==
  indent(IF level > 1 THEN level - 1 ELSE level) \o <<"*"," ">> \o name

tree_line(level, name) == indent(level) \o <<"*"," ">> \o name

\* a slip: the excluded file names are not looked at
tree_verdict_no_exclude(file) ==
  IF include_all_files \/ lower(suffix(name_of(file))) \in EXTENSIONS
  THEN IF matches_include_patterns(rel(file))
       THEN "listed"
       ELSE "kein Treffer in INCLUDE_PATTERNS"
  ELSE "silent"

\* What walk() does with one non-directory entry: "listed", "silent" (passed
\* over without a log line), or the reason it logs.
tree_verdict(file) ==
  IF is_excluded_file(name_of(file))
  THEN "Dateiname in EXCLUDE_FILES"
  ELSE IF include_all_files \/ lower(suffix(name_of(file))) \in EXTENSIONS
  THEN IF matches_include_patterns(rel(file))
       THEN "listed"
       ELSE "kein Treffer in INCLUDE_PATTERNS"
  ELSE "silent"

\* write_tree(start_dir, output_file, include_all_files) calls
\* build_tree_lines, which calls walk(start_dir, 0)
TreeStart ==
  /\ pc = "scanned"
  /\ \E all \in BOOLEAN : include_all_files' = all
  /\ treeStack' = << [current_dir |-> root, level |-> 0] >>
  /\ lines' = <<>>
  /\ tags' = <<>>
  /\ pc' = "tree"
  /\ UNCHANGED <<fsVars, ruleVars, scanVars, warnings, tree_file, bundleVars, splitVars>>

\* walk(current_dir, level) returns at once: not relevant for the include patterns
TreeIrrelevant ==
  /\ pc = "tree"
  /\ treeStack # <<>>
  /\ LET rel_dir == rel(Head(treeStack).current_dir)
     IN rel_dir # <<>> /\ ~is_dir_relevant(rel_dir)
  /\ treeStack' = Tail(treeStack)
  /\ UNCHANGED <<fsVars, ruleVars, pc, scanVars, warnings, include_all_files, lines, tags, tree_file, bundleVars, splitVars>>

\* walk(current_dir, level) returns at once: excluded directory
TreeSkipDir ==
  /\ pc = "tree"
  /\ treeStack # <<>>
  /\ LET rel_dir == rel(Head(treeStack).current_dir)
     IN /\ rel_dir # <<>>
        /\ is_dir_relevant(rel_dir)
        /\ should_skip_dir(rel_dir)
        /\ warnings' = warnings \cup {WarnDir(rel_dir)}
  /\ treeStack' = Tail(treeStack)
  /\ UNCHANGED <<fsVars, ruleVars, pc, scanVars, include_all_files, lines, tags, tree_file, bundleVars, splitVars>>

\* walk(current_dir, level) lists the directory: its own line, its files, and
\* then one walk() per subdirectory (the calls run in order, each to its end,
\* before the next: they go to the front of the pending calls).  The entries
\* come in listing order; files_found, listed and subdirs are the lists
\* files (before and after its sort) and dirs (after its sort).
TreeList ==
  /\ pc = "tree"
  /\ treeStack # <<>>
  /\ LET current_dir == Head(treeStack).current_dir
         level == Head(treeStack).level
         rel_dir == rel(current_dir)
         IsListed(f) == tree_verdict(f) = "listed"
         file_level == IF current_dir = root THEN level ELSE level + 1
         sub_level == IF current_dir # root THEN level + 1 ELSE level
         own == IF current_dir # root
                THEN << tree_line(level, name_of(current_dir)) >>
                ELSE <<>>
         own_tag == IF current_dir # root
                    THEN << [path |-> current_dir, is_dir |-> TRUE] >>
                    ELSE <<>>
     IN /\ rel_dir = <<>> \/ (is_dir_relevant(rel_dir) /\ ~should_skip_dir(rel_dir))
        /\ \E file_entries \in Perms(files_in(current_dir)),
              dir_entries \in Perms(dirs_in(current_dir)),
              name_key \in {[p \in files_in(current_dir) \cup dirs_in(current_dir) |->
                              casefold(name_of(p))]} :
             \E files_found \in {SelectSeq(file_entries, IsListed)} :
               \E listed \in {sorted(files_found, name_key)},
                  subdirs \in {sorted(dir_entries, name_key)} :
                 /\ lines' = lines \o own \o
                      [i \in 1..Len(listed) |-> tree_line(file_level, name_of(listed[i]))]
                 /\ tags' = tags \o own_tag \o
                      [i \in 1..Len(listed) |-> [path |-> listed[i], is_dir |-> FALSE]]
                 /\ warnings' = warnings \cup
                      {WarnFile(rel(f), tree_verdict(f)) :
                         f \in {g \in files_in(current_dir) :
                                  tree_verdict(g) \notin {"listed", "silent"}}}
                 /\ treeStack' =
                      [i \in 1..Len(subdirs) |-> [current_dir |-> subdirs[i], level |-> sub_level]]
                      \o Tail(treeStack)
  /\ UNCHANGED <<fsVars, ruleVars, pc, scanVars, include_all_files, tree_file, bundleVars, splitVars>>

\* build_tree_lines returns; write_tree writes "\n".join(lines) + "\n"
TreeWrite ==
  /\ pc = "tree"
  /\ treeStack = <<>>
  /\ tree_file' = join(<<"\n">>, lines) \o <<"\n">>
  /\ pc' = "done"
  /\ UNCHANGED <<fsVars, ruleVars, scanVars, warnings, include_all_files, treeStack, lines, tags, bundleVars, splitVars>>

-----------------------------------------------------------------------------
(* bundle_files *)

\* f"// File: {rel}\n"
marker_line(rel_path) == <<"/","/"," ","F","i","l","e",":"," ">> \o rel_path \o <<"\n">>

\* a slip: the blank separator line is left out
block_body_no_separator(text) ==
  text \o (IF ~endswith(text, <<"\n">>) THEN <<"\n">> ELSE <<>>)

\* out.write(content); if not content.endswith("\n"): out.write("\n"); out.write("\n")
block_body(text) ==
  text \o (IF ~endswith(text, <<"\n">>) THEN <<"\n">> ELSE <<>>) \o <<"\n">>

\* a slip: the sort key without casefold()
bundle_key_cased == [p \in files |-> rel(p)]

\* the sort key of bundle_files: os.path.relpath(p, start_dir).casefold()
bundle_key == [p \in files |-> casefold(rel(p))]

\* ensure_parent(output_file); output_file.unlink() if it exists; then the scan
BundleUnlink ==
  /\ pc = "bundle"
  /\ output' = NoFile
  /\ pc' = "scan"
  /\ UNCHANGED <<fsVars, ruleVars, scanVars, warnings, treeVars, old_output, queue, success, read_error, splitVars>>

\* a slip: the test of the matched flag the wrong way round
BundleWarn_inverted ==
  /\ pc = "scanned"
  /\ warnings' = warnings \cup {WarnPattern(pat) : pat \in {q \in DOMAIN matched : matched[q]}}
  /\ pc' = "open"
  /\ UNCHANGED <<fsVars, ruleVars, scanVars, treeVars, bundleVars, splitVars>>

\* after the scan: one warning per include pattern whose matched flag is unset
BundleWarn ==
  /\ pc = "scanned"
  /\ warnings' = warnings \cup {WarnPattern(pat) : pat \in {q \in DOMAIN matched : ~matched[q]}}
  /\ pc' = "open"
  /\ UNCHANGED <<fsVars, ruleVars, scanVars, treeVars, bundleVars, splitVars>>

\* open(output_file, "w") and the sort of the targets
BundleOpen ==
  /\ pc = "open"
  /\ output' = <<>>
  /\ \E key \in {bundle_key} : queue' = sorted(targets, key)
  /\ pc' = "write"
  /\ UNCHANGED <<fsVars, ruleVars, scanVars, warnings, treeVars, old_output, success, read_error, splitVars>>

\* one pass of the loop: the marker line, the file's text, the line ends
BundleFile ==
  /\ pc = "write"
  /\ queue # <<>>
  /\ LET fp == Head(queue)
     IN output' = output \o marker_line(rel(fp)) \o block_body(content[fp])
  /\ queue' = Tail(queue)
  /\ UNCHANGED <<fsVars, ruleVars, pc, scanVars, warnings, treeVars, old_output, success, read_error, splitVars>>

\* a slip: the failed read is swallowed and the loop goes on
BundleReadFails_continue ==
  /\ pc = "write"
  /\ queue # <<>>
  /\ output' = output \o marker_line(rel(Head(queue)))
  /\ read_error' = Some(Head(queue))
  /\ queue' = Tail(queue)
  /\ UNCHANGED <<fsVars, ruleVars, pc, scanVars, warnings, treeVars, old_output, success, splitVars>>

\* one pass of the loop in which open(fp) or f.read() raises: the marker line
\* is already written, the exception leaves the loop and bundle_files, and
\* the with statement closes the output file
BundleReadFails ==
  /\ pc = "write"
  /\ queue # <<>>
  /\ output' = output \o marker_line(rel(Head(queue)))
  /\ read_error' = Some(Head(queue))
  /\ pc' = "aborted"
  /\ UNCHANGED <<fsVars, ruleVars, scanVars, warnings, treeVars, old_output, queue, success, splitVars>>

\* the loop is through: the success message
BundleSuccess ==
  /\ pc = "write"
  /\ queue = <<>>
  /\ success' = TRUE
  /\ pc' = "bundled"
  /\ UNCHANGED <<fsVars, ruleVars, scanVars, warnings, treeVars, output, old_output, queue, read_error, splitVars>>

-----------------------------------------------------------------------------
(* genfiles.py: split_by_marker, write_block *)

\* the characters \s matches
REGEX_SPACE == {" ", "\n", "\r"}

\* FILE_PATTERN.match(line) for ^\s*//\s*File:\s*(.+)$ : None, or Some(group 1).
\* The greedy \s* before (.+) gives one character back when nothing else is left.
FILE_PATTERN_match(line) ==
  LET a == lstrip(line, REGEX_SPACE)
  IN IF ~startswith(a, <<"/","/">>) THEN None
     ELSE LET b == lstrip(SubSeq(a, 3, Len(a)), REGEX_SPACE)
          IN IF ~startswith(b, <<"F","i","l","e",":">>) THEN None
             ELSE LET c == SubSeq(b, 6, Len(b))
                      d == lstrip(c, REGEX_SPACE)
                  IN IF c = <<>> \/ \E i \in 1..Len(c) : c[i] = "\n" THEN None
                     ELSE IF d = <<>> THEN Some(<<c[Len(c)]>>)
                     ELSE Some(d)

\* str.splitlines(keepends=True), for the line ends "\n", "\r\n" and "\r"
RECURSIVE splitlines(_)
splitlines(s) ==
  IF s = <<>> THEN <<>>
  ELSE LET ends == {i \in 1..Len(s) : s[i] \in {"\n", "\r"}}
       IN IF ends = {} THEN <<s>>
          ELSE LET i == CHOOSE e \in ends : \A j \in ends : e <= j
                   k == IF s[i] = "\r" /\ i < Len(s) /\ s[i + 1] = "\n" THEN i + 1 ELSE i
               IN <<SubSeq(s, 1, k)>> \o splitlines(SubSeq(s, k + 1, Len(s)))

\* Python truth of "current_path and buffer"
block_open == current_path # None /\ current_path[1] # <<>>

\* write_block(output_base, relative_path, chunk): the file is (re)written
\* with the lines of chunk
write_block(relative_path, chunk) ==
  /\ out_files' = [p \in DOMAIN out_files \cup {relative_path} |->
                     IF p = relative_path THEN concat(chunk) ELSE out_files[p]]
  /\ writes' = Append(writes, [path |-> relative_path, chunk |-> chunk])

\* input_file.read_text(encoding="utf-8").splitlines(keepends=True)
split_begin(text) ==
  /\ raw_lines' = splitlines(text)
  /\ current_path' = None
  /\ buffer' = <<>>
  /\ pc' = "split"

\* split_by_marker is given the file a caller chose
SplitRead ==
  /\ pc = "split_start"
  /\ split_begin(input_file)
  /\ UNCHANGED <<fsVars, ruleVars, scanVars, warnings, treeVars, bundleVars, input_file, out_files, writes>>

\* split_by_marker is given the bundle bundle_files wrote
SplitBundle ==
  /\ pc = "bundled"
  /\ input_file' = output
  /\ split_begin(output)
  /\ UNCHANGED <<fsVars, ruleVars, scanVars, warnings, treeVars, bundleVars, out_files, writes>>

\* one pass of the loop, the line is a marker: flush the block before it and
\* open the next
SplitMarker ==
  /\ pc = "split"
  /\ raw_lines # <<>>
  /\ LET raw == Head(raw_lines)
         m == FILE_PATTERN_match(rstrip(raw, {"\r", "\n"}))
     IN /\ m # None
        /\ IF block_open /\ buffer # <<>>
           THEN write_block(current_path[1], buffer)
           ELSE UNCHANGED <<out_files, writes>>
        /\ current_path' = Some(strip(m[1]))
        /\ buffer' = <<>>
  /\ raw_lines' = Tail(raw_lines)
  /\ UNCHANGED <<fsVars, ruleVars, pc, scanVars, warnings, treeVars, bundleVars, input_file>>

\* one pass of the loop, the line is no marker: collect it inside a block
SplitLine ==
  /\ pc = "split"
  /\ raw_lines # <<>>
  /\ LET raw == Head(raw_lines)
     IN /\ FILE_PATTERN_match(rstrip(raw, {"\r", "\n"})) = None
        /\ buffer' = IF block_open THEN Append(buffer, raw) ELSE buffer
  /\ raw_lines' = Tail(raw_lines)
  /\ UNCHANGED <<fsVars, ruleVars, pc, scanVars, warnings, treeVars, bundleVars,
                 input_file, current_path, out_files, writes>>

\* a slip: the final block is not flushed
SplitFlush_none ==
  /\ pc = "split"
  /\ raw_lines = <<>>
  /\ pc' = "split_done"
  /\ UNCHANGED <<fsVars, ruleVars, scanVars, warnings, treeVars, bundleVars,
                 input_file, raw_lines, current_path, buffer, out_files, writes>>

\* after the loop: flush the final block
SplitFlush ==
  /\ pc = "split"
  /\ raw_lines = <<>>
  /\ IF block_open /\ buffer # <<>>
     THEN write_block(current_path[1], buffer)
     ELSE UNCHANGED <<out_files, writes>>
  /\ pc' = "split_done"
  /\ UNCHANGED <<fsVars, ruleVars, scanVars, warnings, treeVars, bundleVars,
                 input_file, raw_lines, current_path, buffer>>

-----------------------------------------------------------------------------
(* Walker and Tree printer run on the same tree *)

\* candidate files of the trees
WalkPaths ==
  { <<<<"a",".","j","s","o","n">>>>, <<<<"b",".","t","m","p">>>>, <<<<"n","o","d","e","_","m","o","d","u","l","e","s">>, <<"c",".","j","s","o","n">>>>, <<<<"s","r","c">>, <<"a","p","p",".","t","s">>>>,
    <<<<"s","r","c">>, <<"l","i","b">>, <<"u","t","i","l",".","t","s">>>>, <<<<"s","r","c">>, <<"p","a","c","k","a","g","e",".","j","s","o","n">>>>, <<<<"S","r","c">>, <<"t","m","p",".","J","S","O","N">>>>, <<<<"x","t","m","p">>, <<"s","u","b">>, <<"d",".","t","s">>>> }

\* candidate rule sets: EXTENSIONS, EXCLUDE_PATTERNS, EXCLUDE_FILES, INCLUDE_PATTERNS
Exts == {<<".","j","s","o","n">>, <<".","t","s">>}
RuleSets ==
  { <<Exts, {}, {}, {}>>,
    <<Exts, {<<"t","m","p">>, <<"n","o","d","e","_","m","o","d","u","l","e","s">>}, {<<"p","a","c","k","a","g","e",".","j","s","o","n">>}, {}>>,
    <<Exts, {<<"t","m","p">>, <<"n","o","d","e","_","m","o","d","u","l","e","s">>}, {<<"p","a","c","k","a","g","e",".","j","s","o","n">>}, {<<"s","r","c","/","*","*">>}>>,
    <<Exts, {<<"t","m","p">>, <<"n","o","d","e","_","m","o","d","u","l","e","s">>}, {}, {<<"s","r","c","/","l","i","b","/","u","t","i","l",".","t","s">>, <<"a",".","j","s","o","n">>}>>,
    <<Exts, {<<"n","o","d","e","_","m","o","d","u","l","e","s">>}, {<<"p","a","c","k","a","g","e",".","j","s","o","n">>}, {<<"*",".","t","s">>}>>,
    <<Exts, {}, {}, {<<"z","z","z","/","*">>, <<"s","r","c","/","a","?","?",".","t","s">>, <<"b",".","*">>}>> }

InitRules ==
  \E r \in RuleSets :
    /\ EXTENSIONS = r[1]
    /\ EXCLUDE_PATTERNS = r[2]
    /\ EXCLUDE_FILES = r[3]
    /\ INCLUDE_PATTERNS = r[4]

InitScan ==
  /\ walkStack = << root >>
  /\ targets = <<>>
  /\ matched = [pat \in INCLUDE_PATTERNS |-> FALSE]
  /\ yielded = {}
  /\ enumerated = {}
  /\ warnings = {}

InitTree ==
  /\ include_all_files = FALSE
  /\ treeStack = <<>>
  /\ lines = <<>>
  /\ tags = <<>>
  /\ tree_file = NoFile

InitBundle ==
  /\ old_output = output
  /\ queue = <<>>
  /\ success = FALSE
  /\ read_error = None

InitSplit ==
  /\ raw_lines = <<>>
  /\ current_path = None
  /\ buffer = <<>>
  /\ out_files = <<>>
  /\ writes = <<>>

Init ==
  /\ files \in {F \in SUBSET WalkPaths : Cardinality(F) <= MaxFiles}
  /\ content = [f \in files |-> <<>>]
  /\ InitRules
  /\ pc = "scan"
  /\ InitScan
  /\ InitTree
  /\ output = NoFile
  /\ InitBundle
  /\ input_file = <<>>
  /\ InitSplit

Next ==
  \/ ScanPruneIrrelevant
  \/ ScanSkipDir
  \/ ScanDir
  \/ ScanReturn
  \/ TreeStart
  \/ TreeIrrelevant
  \/ TreeSkipDir
  \/ TreeList
  \/ TreeWrite

Spec == Init /\ [][Next]_vars

-----------------------------------------------------------------------------
(* Bundler, then Splitter on the bundle *)

\* candidate files of the trees; the last one lies in an excluded directory
BundlePaths == { <<<<"x",".","t","x","t">>>>, <<<<"Y",".","t","x","t">>>>, <<<<"y",".","t","x","t">>>>, <<<<"d">>, <<"z",".","t","x","t">>>>, <<<<" ","w",".","t","x","t">>>>, <<<<"t","m","p">>, <<"t",".","t","x","t">>>> }

DefaultText == <<"h","i","\n">>

\* candidate texts
Texts == { <<>>, DefaultText, <<"y","o">>, <<"a","\n","\n","b","\n">>, <<"/","/"," ","F","i","l","e",":"," ","q",".","t","x","t","\n","z","\n">> }

\* candidate include patterns
BundleIncludeSets ==
  { {}, {<<"*",".","t","x","t">>, <<"d","/","*">>, <<"z","z","z">>}, {<<"?",".","t","x","t">>, <<"*","/","y",".","t","x","t">>}, {<<"t","m","p","/","*">>, <<"x",".","t","x","t">>} }

\* a bundle an earlier run left at OUTPUT_FILE
OLD_BUNDLE == <<"/","/"," ","F","i","l","e",":"," ","o","l","d",".","t","x","t","\n","o","l","d","\n","\n">>

\* Either the texts vary (no include patterns, no earlier bundle), or the
\* include patterns and the earlier bundle do (every file holds DefaultText).
InitB ==
  /\ EXTENSIONS = {<<".","t","x","t">>}
  /\ EXCLUDE_PATTERNS = {<<"t","m","p">>}
  /\ EXCLUDE_FILES = {<<"p","a","c","k","a","g","e",".","j","s","o","n">>}
  /\ \/ /\ files \in {F \in SUBSET (BundlePaths \ {<<<<"t","m","p">>, <<"t",".","t","x","t">>>>}) : Cardinality(F) <= MaxBundleFiles}
        /\ content \in [files -> Texts]
        /\ INCLUDE_PATTERNS = {}
        /\ output = NoFile
     \/ /\ files \in {F \in SUBSET BundlePaths : Cardinality(F) <= MaxBundleFiles}
        /\ content = [f \in files |-> DefaultText]
        /\ INCLUDE_PATTERNS \in BundleIncludeSets
        /\ output \in {NoFile, OLD_BUNDLE}
  /\ pc = "bundle"
  /\ InitScan
  /\ InitTree
  /\ InitBundle
  /\ input_file = <<>>
  /\ InitSplit

NextB ==
  \/ BundleUnlink
  \/ ScanPruneIrrelevant
  \/ ScanSkipDir
  \/ ScanDir
  \/ ScanReturn
  \/ BundleWarn
  \/ BundleOpen
  \/ BundleFile
  \/ BundleReadFails
  \/ BundleSuccess
  \/ SplitBundle
  \/ SplitMarker
  \/ SplitLine
  \/ SplitFlush

SpecBundle == InitB /\ [][NextB]_vars

-----------------------------------------------------------------------------
(* Splitter on any text *)

InputLines ==
  { <<"/","/"," ","F","i","l","e",":"," ","x",".","t","x","t","\n">>, <<"/","/"," ","F","i","l","e",":"," ","y",".","t","x","t","\n">>, <<" "," ","/","/","F","i","l","e",":","d","/","z",".","t","x","t"," "," ","\n">>, <<"h","i","\n">>, <<"\n">>,
    <<"y","o">>, <<"/","/"," ","F","i","l","e",":","\n">>, <<"/","/","F","i","l","e",":"," "," "," ","\n">> }

InitS ==
  /\ files = {}
  /\ content = <<>>
  /\ EXTENSIONS = {}
  /\ EXCLUDE_PATTERNS = {}
  /\ EXCLUDE_FILES = {}
  /\ INCLUDE_PATTERNS = {}
  /\ pc = "split_start"
  /\ walkStack = <<>>
  /\ targets = <<>>
  /\ matched = <<>>
  /\ yielded = {}
  /\ enumerated = {}
  /\ warnings = {}
  /\ InitTree
  /\ output = NoFile
  /\ InitBundle
  /\ input_file \in {concat(ls) : ls \in UNION {[1..n -> InputLines] : n \in 0..MaxLines}}
  /\ InitSplit

NextS ==
  \/ SplitRead
  \/ SplitMarker
  \/ SplitLine
  \/ SplitFlush

SpecSplit == InitS /\ [][NextS]_vars

-----------------------------------------------------------------------------
(* Properties of the Walker and the Tree printer, checked under Spec *)

ExtensionAllowed(f) == lower(suffix(name_of(f))) \in EXTENSIONS

IncludeAccepts(f) ==
  INCLUDE_PATTERNS = {} \/ \E pat \in INCLUDE_PATTERNS : fnmatch(rel(f), pat)

\* the directory's relative path contains a directory-exclusion pattern
ExcludedDir(d) == \E pat \in EXCLUDE_PATTERNS : contains(rel(d), pat)

PassesFourPredicates(f) ==
  /\ ExtensionAllowed(f)
  /\ \A i \in 1..Len(f) : \A pat \in EXCLUDE_PATTERNS : ~contains(f[i], pat)
  /\ name_of(f) \notin EXCLUDE_FILES
  /\ IncludeAccepts(f)

\* C1: once scan_target_files has returned, a file of the tree is among the
\* targets if and only if its lowercased extension is allowed, no segment of
\* its relative path contains an exclusion pattern, its basename is not an
\* excluded file name, and the include patterns are empty or one matches its
\* relative path.
C1_SelectedIffFourPredicates ==
  pc # "scan" => Range(targets) = {f \in files : PassesFourPredicates(f)}

\* C3: a directory whose relative path contains an exclusion pattern never has
\* its files gone through, nothing below it is ever yielded by the walk or
\* waiting to be, and no file below it is ever among the targets.
C3_ExcludedNeverTraversed ==
  \A d \in dirs \ {root} :
    ExcludedDir(d) =>
      /\ d \notin enumerated
      /\ \A e \in yielded \cup Range(walkStack) : ~is_under(e, d)
      /\ \A f \in Range(targets) : ~is_under(f, d)

\* C3 witness: the scan is over, it met an excluded directory that has a
\* subdirectory, and a file with an allowed extension lies below it.
C3_Witness ==
  /\ pc = "scanned"
  /\ INCLUDE_PATTERNS = {}
  /\ \E d \in yielded :
       /\ ExcludedDir(d)
       /\ dirs_in(d) # {}
       /\ \E f \in files : is_under(f, d) /\ ExtensionAllowed(f)

\* C10: a directory the walk prunes because is_dir_relevant is false holds no
\* file, at any depth, that the include patterns accept.
C10_PruningSound ==
  \A d \in yielded :
    ~is_dir_relevant(rel(d)) =>
      \A f \in files : is_under(f, d) => ~matches_include_patterns(rel(f))

\* the files the tree listing holds
ListedFiles == {tags[i].path : i \in {j \in 1..Len(tags) : ~tags[j].is_dir}}

\* C7 as stated: run the way main runs it, the tree mode lists exactly the
\* files scan_target_files selects.
C7_TreeListsWalkerSelection ==
  (pc = "done" /\ include_all_files = TREE_INCLUDE_ALL_FILES_EXCEPT_EXCLUDES)
    => ListedFiles = Range(targets)

\* C7 as amended: with include_all_files the tree mode lists the Walker's
\* selection and, besides, the files of the directories the Walker goes
\* through that fail the extension allow-list alone; without it, exactly the
\* Walker's selection.
C7_TreeFilter ==
  pc = "done" =>
    IF include_all_files
    THEN ListedFiles = Range(targets) \cup
           {f \in files : /\ parent(f) \in enumerated
                          /\ ~ExtensionAllowed(f)
                          /\ name_of(f) \notin EXCLUDE_FILES
                          /\ IncludeAccepts(f)}
    ELSE ListedFiles = Range(targets)

\* C7 witness: a finished listing, made the way main makes it, that holds a
\* file the Walker did not select.
C7_Witness ==
  /\ pc = "done"
  /\ include_all_files = TREE_INCLUDE_ALL_FILES_EXCEPT_EXCLUDES
  /\ Range(targets) # {}
  /\ ListedFiles \ Range(targets) # {}

\* the positions of the listing whose entry lies in dir itself
ChildPositions(dir) == {j \in 1..Len(tags) : parent(tags[j].path) = dir}

\* the positions of the listing whose entry lies anywhere below dir
SubtreePositions(dir) == {j \in 1..Len(tags) : is_under(tags[j].path, dir)}

\* the listing below dir, which starts after position i: first dir's files,
\* in case-insensitive order, then its subdirectories, in case-insensitive
\* order, and nothing else until the subtree ends
SubtreeInOrder(dir, i) ==
  LET below == SubtreePositions(dir)
      fpos == {j \in ChildPositions(dir) : ~tags[j].is_dir}
      dpos == {j \in ChildPositions(dir) : tags[j].is_dir}
  IN /\ below = (i + 1)..(i + Cardinality(below))
     /\ fpos = (i + 1)..(i + Cardinality(fpos))
     /\ \A j, k \in fpos :
          j < k => str_le(casefold(name_of(tags[j].path)), casefold(name_of(tags[k].path)))
     /\ \A j, k \in dpos :
          j < k => str_le(casefold(name_of(tags[j].path)), casefold(name_of(tags[k].path)))

\* the text of the line for an entry at the given depth
EntryLine(depth, name) ==
  [k \in 1..(2 * depth + 2 + Len(name)) |->
     IF k <= 2 * depth THEN " "
     ELSE IF k = 2 * depth + 1 THEN "*"
     ELSE IF k = 2 * depth + 2 THEN " "
     ELSE name[k - 2 * depth - 2]]

\* C8: the finished listing has no line for the start directory and no entry
\* twice; the entry at depth d (the start directory's children have depth 0)
\* reads d two-space units, "* ", its name; every directory's line is followed
\* at once by its listed files in case-insensitive order, then by its
\* subdirectories in case-insensitive order, each with its whole subtree; and
\* the tree {src/app.ts, src/lib/util.ts} without exclusions is listed as
\* src, app.ts, lib, util.ts with indentation 0, 1, 1, 2.
C8_TreeLayout ==
  pc = "done" =>
    /\ Len(lines) = Len(tags)
    /\ \A i \in 1..Len(tags) :
         /\ tags[i].path # root
         /\ \A j \in 1..Len(tags) : tags[j].path = tags[i].path => j = i
         /\ lines[i] = EntryLine(Len(tags[i].path) - 1, name_of(tags[i].path))
         /\ tags[i].is_dir => SubtreeInOrder(tags[i].path, i)
    /\ SubtreeInOrder(root, 0)
    /\ (files = {<<<<"s","r","c">>, <<"a","p","p",".","t","s">>>>, <<<<"s","r","c">>, <<"l","i","b">>, <<"u","t","i","l",".","t","s">>>>} /\ EXCLUDE_PATTERNS = {} /\ INCLUDE_PATTERNS = {})
         => lines = << <<"*"," ","s","r","c">>, <<" "," ","*"," ","a","p","p",".","t","s">>, <<" "," ","*"," ","l","i","b">>, <<" "," "," "," ","*"," ","u","t","i","l",".","t","s">> >>

\* C8 witness: a finished listing with a directory two levels down and a
\* directory below the start directory that lists two files.
C8_Witness ==
  /\ pc = "done"
  /\ \E i \in 1..Len(tags) : tags[i].is_dir /\ Len(tags[i].path) = 2
  /\ \E i, j \in 1..Len(tags) :
       /\ i # j /\ ~tags[i].is_dir /\ ~tags[j].is_dir
       /\ parent(tags[i].path) = parent(tags[j].path) /\ parent(tags[i].path) # root

-----------------------------------------------------------------------------
(* Properties of the Bundler and of the round trip, checked under SpecBundle *)

\* the text with one newline added unless it ends with one
NewlineEnded(text) ==
  IF text # <<>> /\ text[Len(text)] = "\n" THEN text ELSE text \o <<"\n">>

\* the block of one file: marker line, text, closing newline, one blank line
ExpectedBlock(f) ==
  <<"/", "/", " ", "F", "i", "l", "e", ":", " ">> \o rel(f) \o <<"\n">>
    \o NewlineEnded(content[f]) \o <<"\n">>

\* the orders of the selected files that do not decrease by case-folded path
SortedOrders ==
  {o \in Perms(Range(targets)) :
     \A i, j \in 1..Len(o) : i < j => str_le(casefold(rel(o[i])), casefold(rel(o[j])))}

\* C4: after a successful run the bundle is the blocks of the selected files,
\* each once, in an order that does not decrease by case-folded relative
\* path, and nothing else.
C4_BundleLayout ==
  pc = "bundled" =>
    /\ Cardinality(Range(targets)) = Len(targets)
    /\ \E o \in SortedOrders : output = concat([i \in 1..Len(o) |-> ExpectedBlock(o[i])])

\* C4 witness: a bundle of two files of which the one with the upper-case
\* name sorts last, one text ending with a newline and one not.
C4_Witness ==
  /\ pc = "bundled"
  /\ Range(targets) = {<<<<"x",".","t","x","t">>>>, <<<<"Y",".","t","x","t">>>>}
  /\ content[<<<<"x",".","t","x","t">>>>] = <<"y","o">>
  /\ content[<<<<"Y",".","t","x","t">>>>] = <<"h","i","\n">>

\* the include patterns bundle_files has warned about
WarnedPatterns == {w.what : w \in {v \in warnings : v.kind = WarnPattern(<<>>).kind}}

C6_WitnessNoMatch ==
  /\ pc = "open"
  /\ files # {}
  /\ INCLUDE_PATTERNS # {}
  /\ \A f \in files : \A pat \in INCLUDE_PATTERNS : ~fnmatch(rel(f), pat)

\* C9: the output file is gone from the start of the scan until it is opened
\* again; and once a read has failed, the run is over without the success
\* message, the output holds the blocks of the files before the failing one
\* and its marker line, so no block of a later file, and it is not what the
\* output file held before the run.
C9_AbortWithoutRollback ==
  /\ pc \in {"scan", "scanned", "open"} => output = NoFile
  /\ read_error # None =>
       /\ pc = "aborted"
       /\ ~success
       /\ \E o \in SortedOrders :
            \E n \in 1..Len(o) :
              /\ o[n] = read_error[1]
              /\ output = concat([i \in 1..(n - 1) |-> ExpectedBlock(o[i])])
                            \o <<"/", "/", " ", "F", "i", "l", "e", ":", " ">>
                            \o rel(o[n]) \o <<"\n">>
       /\ output # old_output

\* C9 witness: a run that found an earlier bundle in place failed at a file
\* that has another file after it in the sort order.
C9_Witness ==
  /\ pc = "aborted"
  /\ old_output # NoFile
  /\ Len(queue) >= 2

\* no two selected files have relative paths that differ in case only
NoCaseDuplicates ==
  \A f, g \in Range(targets) : f # g => casefold(rel(f)) # casefold(rel(g))

\* no line of a selected file's text reads as a marker line
NoMarkerInTexts ==
  \A f \in Range(targets) :
    \A l \in Range(splitlines(content[f])) :
      FILE_PATTERN_match(rstrip(l, {"\r", "\n"})) = None

\* no selected file's relative path begins or ends with white space
NoSpaceAroundPaths == \A f \in Range(targets) : strip(rel(f)) = rel(f)

-----------------------------------------------------------------------------
(* Properties of the Splitter, checked under SpecSplit *)

InputLineSeq == splitlines(input_file)

IsMarker(i) == FILE_PATTERN_match(rstrip(InputLineSeq[i], {"\r", "\n"})) # None

MarkerPositions == {i \in 1..Len(InputLineSeq) : IsMarker(i)}

\* the path the marker at position i names
MarkerPath(i) == strip(FILE_PATTERN_match(rstrip(InputLineSeq[i], {"\r", "\n"}))[1])

\* the raw lines from the marker at position i to the next marker or the end
BlockLines(i) ==
  LET later == {j \in MarkerPositions : j > i}
      stop == IF later = {} THEN Len(InputLineSeq) + 1
              ELSE CHOOSE j \in later : \A k \in later : j <= k
  IN SubSeq(InputLineSeq, i + 1, stop - 1)

\* the blocks of the given marker positions, in input order
RECURSIVE BlocksOf(_)
BlocksOf(positions) ==
  IF positions = {} THEN <<>>
  ELSE LET i == CHOOSE p \in positions : \A q \in positions : p <= q
       IN <<[path |-> MarkerPath(i), chunk |-> BlockLines(i)]>> \o BlocksOf(positions \ {i})

====
